---- MODULE Spec2Model ----
(***************************************************************************)
(* A model of the Name / NameComponent layer of go-ndn2 (src/name.go).     *)
(*                                                                         *)
(* Bytes are naturals 0..255 and byte strings are sequences of bytes.      *)
(* A Go pointer that may be nil is a record with an isNil field.  An error *)
(* value is the name of the Go variable ("" for nil); a run-time panic of  *)
(* the Go code is the pseudo error "panic".                                *)
(*                                                                         *)
(* The tlv package (Block, the type-code constants, the var-number         *)
(* encoding) is not part of src/; it is modelled from the contract the     *)
(* specification document gives and from the bytes the tests of            *)
(* src/name_test.go show.  Name.Compare is called by the tests but is not  *)
(* defined in src/name.go; it is modelled from the document as well.       *)
(***************************************************************************)
EXTENDS Integers, Sequences, FiniteSets, TLC

(***************************************************************************)
(* Bounds of the model.                                                    *)
(***************************************************************************)
\* Largest number of components a Name of the state machine may hold.
MaxSize == 3
\* Largest number of TLV pieces in the value of a block given to DecodeName.
MaxPieces == 2
\* Largest number of components of the names given to Compare/Equals/PrefixOf.
MaxPairSize == 2
\* Largest number of component objects, and of value buffers, ever allocated.
MaxCells == 4

(***************************************************************************)
(* TLV type codes (package tlv) and widths.                                *)
(***************************************************************************)
TlvName == 7
TlvImplicitSha256DigestComponent == 1
TlvParametersSha256DigestComponent == 2
TlvGenericNameComponent == 8
TlvKeywordNameComponent == 32
TlvSegmentNameComponent == 33
TlvByteOffsetNameComponent == 34
TlvVersionNameComponent == 35
TlvTimestampNameComponent == 36
TlvSequenceNumNameComponent == 37
MaxUint16 == 65535
DigestLen == 32
Uint64Len == 8

NumericTypes ==
  {TlvSegmentNameComponent, TlvByteOffsetNameComponent, TlvVersionNameComponent,
   TlvTimestampNameComponent, TlvSequenceNumNameComponent}

ReservedTypes ==
  NumericTypes \cup {TlvImplicitSha256DigestComponent, TlvParametersSha256DigestComponent,
                     TlvGenericNameComponent, TlvKeywordNameComponent}

(***************************************************************************)
(* Byte-string helpers.                                                    *)
(***************************************************************************)
Zeros(k) == [i \in 1..k |-> 0]

Drop(s, k) == SubSeq(s, k + 1, Len(s))

Take(s, k) == SubSeq(s, 1, k)

RECURSIVE Flatten(_)
Flatten(ss) == IF ss = <<>> THEN <<>> ELSE Head(ss) \o Flatten(Tail(ss))

\* bytes.Compare restricted to equal-length operands and lexicographic order.
RECURSIVE BytesCompare(_, _)
BytesCompare(x, y) ==
  IF x = <<>> /\ y = <<>> THEN 0
  ELSE IF x = <<>> THEN -1
  ELSE IF y = <<>> THEN 1
  ELSE IF Head(x) < Head(y) THEN -1
  ELSE IF Head(x) > Head(y) THEN 1
  ELSE BytesCompare(Tail(x), Tail(y))

(***************************************************************************)
(* encoding/binary: BigEndian.Uint64 and BigEndian.PutUint64.  The model's *)
(* inputs keep the five high bytes zero, so the integer stays below 2^24.  *)
(***************************************************************************)
\* binary.BigEndian.Uint64(b): reads b[0..7]; the caller guarantees Len(b) >= 8.
BigEndianUint64(b) ==
  LET RECURSIVE Acc(_, _)
      Acc(i, v) == IF i > Uint64Len THEN v ELSE Acc(i + 1, v * 256 + b[i])
  IN Acc(1, 0)

\* binary.BigEndian.PutUint64(buf, v) on a fresh 8-byte buffer.
RECURSIVE Pow256(_)
Pow256(k) == IF k = 0 THEN 1 ELSE 256 * Pow256(k - 1)

\* The byte PutUint64 writes at position i (1-based, most significant first).
\* Positions 1..4 would need 256^4 and more; they are zero for every v < 2^31.
BigEndianPutUint64(v) ==
  [i \in 1..Uint64Len |->
     IF i <= 4 THEN 0 ELSE (v \div Pow256(Uint64Len - i)) % 256]

(***************************************************************************)
(* tlv: var-number and TLV element encoding (NDN packet format).           *)
(***************************************************************************)
EncodeVarNum(x) ==
  IF x < 253 THEN <<x>>
  ELSE IF x <= MaxUint16 THEN <<253, x \div 256, x % 256>>
  ELSE <<254, x \div 16777216, (x \div 65536) % 256, (x \div 256) % 256, x % 256>>

\* Reads one var-number at the head of buf: [ok, val, size].
DecodeVarNum(buf) ==
  IF buf = <<>> THEN [ok |-> FALSE, val |-> 0, size |-> 0]
  ELSE IF buf[1] < 253 THEN [ok |-> TRUE, val |-> buf[1], size |-> 1]
  ELSE IF buf[1] = 253 THEN
    IF Len(buf) < 3 THEN [ok |-> FALSE, val |-> 0, size |-> 0]
    ELSE [ok |-> TRUE, val |-> buf[2] * 256 + buf[3], size |-> 3]
  ELSE IF buf[1] = 254 THEN
    IF Len(buf) < 5 THEN [ok |-> FALSE, val |-> 0, size |-> 0]
    ELSE [ok |-> TRUE,
          val |-> buf[2] * 16777216 + buf[3] * 65536 + buf[4] * 256 + buf[5],
          size |-> 5]
  ELSE [ok |-> FALSE, val |-> 0, size |-> 0]

\* The wire bytes of a TLV element.
EncodeTLV(type, value) == EncodeVarNum(type) \o EncodeVarNum(Len(value)) \o value

(***************************************************************************)
(* tlv.Block: *Block is [isNil, type, value, hasWire, wire, wireErr].      *)
(* wireErr is the error Block.Wire() returns for a block that cannot       *)
(* materialize its bytes ("" for a sound block).                           *)
(***************************************************************************)
\* tlv.Block{}: the zero value.
ZeroBlock ==
  [isNil |-> FALSE, type |-> 0, value |-> <<>>, hasWire |-> FALSE, wire |-> <<>>,
   wireErr |-> ""]

NilBlock == [ZeroBlock EXCEPT !.isNil = TRUE]

\* tlv.NewBlock(type, value)
NewBlock(type, value) == [ZeroBlock EXCEPT !.type = type, !.value = value]

\* Block.HasWire()
BlockHasWire(b) == b.hasWire

\* Block.Reset(): drops the cached wire and the content.
BlockReset(b) == [b EXCEPT !.value = <<>>, !.hasWire = FALSE, !.wire = <<>>]

\* Block.SetType(t)
BlockSetType(b, t) == [b EXCEPT !.type = t]

\* Block.Wire(): the block with its wire materialized (kept when already there).
BlockWire(b) ==
  IF b.hasWire THEN b
  ELSE [b EXCEPT !.hasWire = TRUE, !.wire = EncodeTLV(b.type, b.value)]

\* The bytes Block.Wire() returns.
BlockBytes(b) == BlockWire(b).wire

\* Block.Append(sub): adds a sub-element at the end of the value.
BlockAppend(b, sub) ==
  [b EXCEPT !.value = b.value \o BlockBytes(sub), !.hasWire = FALSE, !.wire = <<>>]

\* Block.DeepCopy()
BlockDeepCopy(b) == b

\* tlv.DecodeBlock(buf): one element at the head of buf, [err, block, size].
DecodeBlock(buf) ==
  LET t == DecodeVarNum(buf)
      l == DecodeVarNum(Drop(buf, t.size))
      start == t.size + l.size
  IN IF ~t.ok THEN [err |-> "tlv.ErrBufferTooShort", block |-> NilBlock, size |-> 0]
     ELSE IF Len(buf) = t.size
       THEN [err |-> "tlv.ErrMissingLength", block |-> NilBlock, size |-> 0]
     ELSE IF ~l.ok THEN [err |-> "tlv.ErrBufferTooShort", block |-> NilBlock, size |-> 0]
     ELSE IF start + l.val > Len(buf)
       THEN [err |-> "tlv.ErrBufferTooShort", block |-> NilBlock, size |-> 0]
     ELSE [err |-> "",
           block |-> NewBlock(t.val, SubSeq(buf, start + 1, start + l.val)),
           size |-> start + l.val]

\* Block.Parse(): the sub-elements of a value in wire order, up to the first
\* element that does not decode, and that element's error.
RECURSIVE BlockParse(_)
BlockParse(value) ==
  IF value = <<>> THEN [subelements |-> <<>>, err |-> ""]
  ELSE LET d == DecodeBlock(value)
       IN IF d.err # "" THEN [subelements |-> <<>>, err |-> d.err]
          ELSE LET rest == BlockParse(Drop(value, d.size))
               IN [subelements |-> <<d.block>> \o rest.subelements, err |-> rest.err]

(***************************************************************************)
(* NameComponent: [isNil, kind, tlvType, value].  kind is the Go type of   *)
(* the component; every kind embeds BaseNameComponent.                     *)
(***************************************************************************)
NilComponent == [isNil |-> TRUE, kind |-> "nil", tlvType |-> 0, value |-> <<>>]

Component(kind, tlvType, value) ==
  [isNil |-> FALSE, kind |-> kind, tlvType |-> tlvType, value |-> value]

Ok(c) == [n |-> c, err |-> ""]

Fail(e) == [n |-> NilComponent, err |-> e]

\* NewBaseNameComponent(tlvType, value)
NewBaseNameComponent(tlvType, value) ==
  IF Len(value) = 0 THEN Fail("util.ErrTooShort")
  ELSE Ok(Component("Base", tlvType, value))

\* NewImplicitSha256DigestComponent(value)
NewImplicitSha256DigestComponent(value) ==
  IF Len(value) # DigestLen THEN Fail("util.ErrTooShort")
  ELSE Ok(Component("ImplicitSha256Digest", TlvImplicitSha256DigestComponent, value))

\* NewParametersSha256DigestComponent(value)
NewParametersSha256DigestComponent(value) ==
  IF Len(value) # DigestLen THEN Fail("util.ErrTooShort")
  ELSE Ok(Component("ParametersSha256Digest", TlvParametersSha256DigestComponent, value))

\* NewGenericNameComponent(value)
NewGenericNameComponent(value) ==
  IF Len(value) = 0 THEN Fail("util.ErrTooShort")
  ELSE Ok(Component("Generic", TlvGenericNameComponent, value))

\* NewKeywordNameComponent(value)
NewKeywordNameComponent(value) ==
  IF Len(value) = 0 THEN Fail("util.ErrTooShort")
  ELSE Ok(Component("Keyword", TlvKeywordNameComponent, value))

\* NewSegmentNameComponent(value uint64)
NewSegmentNameComponent(v) ==
  Ok(Component("Segment", TlvSegmentNameComponent, BigEndianPutUint64(v)))

\* NewByteOffsetNameComponent(value uint64)
NewByteOffsetNameComponent(v) ==
  Ok(Component("ByteOffset", TlvByteOffsetNameComponent, BigEndianPutUint64(v)))

\* NewVersionNameComponent(value uint64)
NewVersionNameComponent(v) ==
  Ok(Component("Version", TlvVersionNameComponent, BigEndianPutUint64(v)))

\* NewTimestampNameComponent(value uint64)
NewTimestampNameComponent(v) ==
  Ok(Component("Timestamp", TlvTimestampNameComponent, BigEndianPutUint64(v)))

\* NewSequenceNumNameComponent(value uint64)
NewSequenceNumNameComponent(v) ==
  Ok(Component("SequenceNum", TlvSequenceNumNameComponent, BigEndianPutUint64(v)))

\* GenericNameComponent.SetValue / KeywordNameComponent.SetValue
GenericSetValue(c, value) == [c EXCEPT !.value = value]

\* BaseNameComponent.DeepCopy and the DeepCopy of every kind embedding it.
ComponentDeepCopy(c) == Component(c.kind, c.tlvType, c.value)

\* BaseNameComponent.Wire(): the component's own block.  The cached block is
\* never materialized (only its copies are), so it is rebuilt on every call.
ComponentWire(c) == BlockDeepCopy(NewBlock(c.tlvType, c.value))

\* binary.BigEndian.Uint64(b) starts with the bounds check _ = b[7]: it panics
\* on a slice of fewer than eight bytes and ignores what follows the eighth.
Uint64Panics(b) == Len(b) < Uint64Len

\* The default case with the range test of line 61 left out: uint16(type) wraps.
DecodeDefaultNoRangeCheck(type, value) ==
  NewBaseNameComponent(type % (MaxUint16 + 1), value)

\* The default case of DecodeNameComponent's switch.
DecodeDefault(type, value) ==
  IF type > MaxUint16 THEN Fail("util.ErrOutOfRange")
  ELSE NewBaseNameComponent(type, value)

\* DecodeNameComponent(wire)
DecodeNameComponent(wire) ==
  IF wire.isNil THEN Fail("util.ErrNonExistent")
  ELSE IF Len(wire.value) = 0 THEN Fail("tlv.ErrBufferTooShort")
  ELSE CASE wire.type = TlvImplicitSha256DigestComponent ->
              NewImplicitSha256DigestComponent(wire.value)
         [] wire.type = TlvParametersSha256DigestComponent ->
              NewParametersSha256DigestComponent(wire.value)
         [] wire.type = TlvGenericNameComponent -> NewGenericNameComponent(wire.value)
         [] wire.type = TlvKeywordNameComponent -> NewKeywordNameComponent(wire.value)
         [] wire.type = TlvSegmentNameComponent ->
              IF Uint64Panics(wire.value) THEN Fail("panic")
              ELSE NewSegmentNameComponent(BigEndianUint64(wire.value))
         [] wire.type = TlvByteOffsetNameComponent ->
              IF Uint64Panics(wire.value) THEN Fail("panic")
              ELSE NewByteOffsetNameComponent(BigEndianUint64(wire.value))
         [] wire.type = TlvVersionNameComponent ->
              IF Uint64Panics(wire.value) THEN Fail("panic")
              ELSE NewVersionNameComponent(BigEndianUint64(wire.value))
         [] wire.type = TlvTimestampNameComponent ->
              IF Uint64Panics(wire.value) THEN Fail("panic")
              ELSE NewTimestampNameComponent(BigEndianUint64(wire.value))
         [] wire.type = TlvSequenceNumNameComponent ->
              IF Uint64Panics(wire.value) THEN Fail("panic")
              ELSE NewSequenceNumNameComponent(BigEndianUint64(wire.value))
         [] OTHER -> DecodeDefault(wire.type, wire.value)

(***************************************************************************)
(* Name: *Name is [isNil, components, wire].  Indices are 0-based as in    *)
(* the Go code; components[i + 1] is the Go n.components[i].               *)
(***************************************************************************)
\* NewName()
NewName == [isNil |-> FALSE, components |-> <<>>, wire |-> ZeroBlock]

NilName == [isNil |-> TRUE, components |-> <<>>, wire |-> ZeroBlock]

\* Name.Size()
NameSize(n) == Len(n.components)

\* Name.HasWire()
NameHasWire(n) == BlockHasWire(n.wire)

\* Name.At(index)
NameAt(n, index) ==
  IF index < 0 \/ index >= Len(n.components) THEN NilComponent
  ELSE n.components[index + 1]

\* Name.Append with the n.wire.Reset() of line 529 left out.
NameAppendNoReset(n, component) ==
  IF component.isNil THEN [n |-> n, err |-> "util.ErrNonExistent"]
  ELSE [n |-> [n EXCEPT !.components = Append(@, ComponentDeepCopy(component))],
        err |-> ""]

\* Name.Append with the nil test of lines 524-526 left out: DeepCopy is called
\* on the nil interface value.
NameAppendNoNilCheck(n, component) ==
  IF component.isNil THEN [n |-> n, err |-> "panic"]
  ELSE [n |-> [n EXCEPT !.components = Append(@, ComponentDeepCopy(component)),
                        !.wire = BlockReset(@)],
        err |-> ""]

\* Name.Append(component): [n, err]
NameAppend(n, component) ==
  IF component.isNil THEN [n |-> n, err |-> "util.ErrNonExistent"]
  ELSE [n |-> [n EXCEPT !.components = Append(@, ComponentDeepCopy(component)),
                        !.wire = BlockReset(@)],
        err |-> ""]

\* Name.Clear()
NameClear(n) ==
  IF Len(n.components) > 0
  THEN [n EXCEPT !.components = <<>>, !.wire = BlockReset(@)]
  ELSE n

\* Name.DeepCopy()
NameDeepCopy(n) ==
  [isNil |-> FALSE,
   components |-> [i \in 1..Len(n.components) |-> ComponentDeepCopy(n.components[i])],
   wire |-> ZeroBlock]

\* The test both loops of Equals and PrefixOf apply at one position.
SameComponent(c, d) == c.tlvType = d.tlvType /\ c.value = d.value

\* Name.Equals with the type-code test of line 566 left out.
NameEqualsIgnoringType(n, other) ==
  /\ NameSize(n) = NameSize(other)
  /\ \A i \in 0..(NameSize(n) - 1) : NameAt(n, i).value = NameAt(other, i).value

\* Name.Equals(other)
NameEquals(n, other) ==
  /\ NameSize(n) = NameSize(other)
  /\ \A i \in 0..(NameSize(n) - 1) : SameComponent(NameAt(n, i), NameAt(other, i))

\* Name.Erase with the copy of line 580 left out: the slice only loses its
\* last element.
NameEraseNoShift(n, index) ==
  IF index < 0 \/ index >= Len(n.components) THEN n
  ELSE [n EXCEPT !.components = Take(@, Len(@) - 1),
                 !.wire = BlockReset(@)]

\* Name.Erase(index)
NameErase(n, index) ==
  IF index < 0 \/ index >= Len(n.components) THEN n
  ELSE [n EXCEPT !.components = Take(@, index) \o Drop(@, index + 1),
                 !.wire = BlockReset(@)]

\* Name.Prefix(size): [n, err].  The loop reads n.components[i] for every
\* i < size, which is an index out of range once size exceeds the length.
NamePrefix(n, size) ==
  IF size > Len(n.components) THEN [n |-> NilName, err |-> "panic"]
  ELSE [n |-> [isNil |-> FALSE,
               components |-> [i \in 1..size |-> ComponentDeepCopy(n.components[i])],
               wire |-> ZeroBlock],
        err |-> ""]

\* Name.PrefixOf with >= for the > of line 606.
NamePrefixOfStrict(n, other) ==
  IF other.isNil \/ NameSize(n) >= NameSize(other) THEN FALSE
  ELSE \A i \in 0..(NameSize(n) - 1) : SameComponent(NameAt(n, i), NameAt(other, i))

\* Name.PrefixOf(other)
NamePrefixOf(n, other) ==
  IF other.isNil \/ NameSize(n) > NameSize(other) THEN FALSE
  ELSE \A i \in 0..(NameSize(n) - 1) : SameComponent(NameAt(n, i), NameAt(other, i))

\* Name.Set(index, component): [n, err].  component.DeepCopy() on a nil
\* interface value is a nil dereference.
NameSet(n, index, component) ==
  IF index < 0 \/ index >= Len(n.components) THEN [n |-> n, err |-> "util.ErrOutOfRange"]
  ELSE IF component.isNil THEN [n |-> n, err |-> "panic"]
  ELSE [n |-> [n EXCEPT !.components[index + 1] = ComponentDeepCopy(component),
                        !.wire = BlockReset(@)],
        err |-> ""]

\* The loop of Name.Wire(): every component's block appended in order.
RECURSIVE AppendComponents(_, _)
AppendComponents(b, components) ==
  IF components = <<>> THEN b
  ELSE AppendComponents(BlockAppend(b, ComponentWire(Head(components))), Tail(components))

\* Name.Wire with a loop that starts at the second component.
NameWireSkippingFirst(n) ==
  LET w == IF NameHasWire(n) THEN n.wire
           ELSE BlockWire(AppendComponents(BlockSetType(BlockReset(n.wire), TlvName),
                                           IF n.components = <<>> THEN <<>>
                                           ELSE Tail(n.components)))
  IN [n |-> [n EXCEPT !.wire = w], block |-> BlockDeepCopy(w)]

\* Name.Wire(): [n, block], the name with its cache filled and the copy returned.
NameWire(n) ==
  LET w == IF NameHasWire(n) THEN n.wire
           ELSE BlockWire(AppendComponents(BlockSetType(BlockReset(n.wire), TlvName),
                                           n.components))
  IN [n |-> [n EXCEPT !.wire = w], block |-> BlockDeepCopy(w)]

\* The loop of DecodeName: each sub-element decoded and appended, stopping
\* at the first one DecodeNameComponent refuses (or panics on): [n, err].
RECURSIVE DecodeComponents(_, _)
DecodeComponents(n, elems) ==
  IF elems = <<>> THEN [n |-> n, err |-> ""]
  ELSE LET c == DecodeNameComponent(Head(elems))
       IN IF c.err # "" THEN [n |-> NilName, err |-> c.err]
          ELSE DecodeComponents(NameAppend(n, c.n).n, Tail(elems))

\* Block.Subelements() after Block.Parse(): the sub-elements parsed before the
\* first malformed one are either kept or dropped by the block (keep).
BlockSubelements(b, keep) ==
  LET parsed == BlockParse(b.value)
  IN IF parsed.err = "" \/ keep THEN parsed.subelements ELSE <<>>

\* DecodeName with lines 505-506, which keep the block as the wire, left out.
DecodeNameDroppingWire(b, keep) ==
  IF b.isNil THEN [n |-> NilName, err |-> "util.ErrNonExistent"]
  ELSE IF b.wireErr # "" THEN [n |-> NilName, err |-> b.wireErr]
  ELSE IF b.type # TlvName THEN [n |-> NilName, err |-> "tlv.ErrUnrecognized"]
  ELSE DecodeComponents(NewName, BlockSubelements(b, keep))

\* DecodeName(b): [n, err].  The value b.Parse() returns is not looked at.
DecodeName(b, keep) ==
  IF b.isNil THEN [n |-> NilName, err |-> "util.ErrNonExistent"]
  ELSE IF b.wireErr # "" THEN [n |-> NilName, err |-> b.wireErr]
  ELSE IF b.type # TlvName THEN [n |-> NilName, err |-> "tlv.ErrUnrecognized"]
  ELSE LET d == DecodeComponents(NewName, BlockSubelements(b, keep))
       IN IF d.err # "" THEN d
          ELSE [n |-> [d.n EXCEPT !.wire = BlockWire(BlockDeepCopy(BlockWire(b)))],
                err |-> ""]

\* Name.Compare(other): components pairwise by value length, then value
\* bytes, then type code; a name that runs out first sorts first.
ComponentCompare(c, d) ==
  IF Len(c.value) < Len(d.value) THEN -1
  ELSE IF Len(c.value) > Len(d.value) THEN 1
  ELSE IF BytesCompare(c.value, d.value) # 0 THEN BytesCompare(c.value, d.value)
  ELSE IF c.tlvType < d.tlvType THEN -1
  ELSE IF c.tlvType > d.tlvType THEN 1
  ELSE 0

RECURSIVE CompareFrom(_, _, _)
CompareFrom(n, other, i) ==
  IF i >= NameSize(n) /\ i >= NameSize(other) THEN 0
  ELSE IF i >= NameSize(n) THEN -1
  ELSE IF i >= NameSize(other) THEN 1
  ELSE IF ComponentCompare(NameAt(n, i), NameAt(other, i)) # 0
    THEN ComponentCompare(NameAt(n, i), NameAt(other, i))
  ELSE CompareFrom(n, other, i + 1)

NameCompare(n, other) == CompareFrom(n, other, 0)

(***************************************************************************)
(* References.  A NameComponent held through a Go pointer is a reference   *)
(* into heap.objs, where an object is [kind, tlvType, buf]; the []byte of  *)
(* its value field is a reference into heap.bufs.  A Name by reference is  *)
(* [isNil, components, wire] with a sequence of references as components.  *)
(* Nothing is ever freed: a reference stays good as long as it is held.    *)
(***************************************************************************)
\* The nil interface value.
NilRef == 0

EmptyHeap == [objs |-> <<>>, bufs |-> <<>>]

\* new(T); n.value = make([]byte, len(value)); copy(n.value, value)
RefNew(h, kind, tlvType, value) ==
  [heap |-> [objs |-> Append(h.objs,
                             [kind |-> kind, tlvType |-> tlvType, buf |-> Len(h.bufs) + 1]),
             bufs |-> Append(h.bufs, value)],
   ref |-> Len(h.objs) + 1]

\* NameComponent.Value() through a reference.
RefValue(h, r) == h.bufs[h.objs[r].buf]

\* The component a reference points at.
RefComponent(h, r) ==
  IF r = NilRef THEN NilComponent
  ELSE Component(h.objs[r].kind, h.objs[r].tlvType, RefValue(h, r))

\* DeepCopy with newN.value = n.value for the make and copy of lines 102-103:
\* a new object on the buffer of the old one.
RefDeepCopySharedValue(h, r) ==
  [heap |-> [h EXCEPT !.objs = Append(@, h.objs[r])],
   ref |-> Len(h.objs) + 1]

\* component.DeepCopy(): a new object of the same kind with a buffer of its own.
RefDeepCopy(h, r) == RefNew(h, h.objs[r].kind, h.objs[r].tlvType, RefValue(h, r))

\* SetValue of every kind that has one: [heap, err].  The generic, keyword
\* and digest kinds put a new buffer in place of the old one; the numeric
\* kinds write the eight bytes into the buffer they have.
RefSetValue(h, r, v) ==
  LET kind == h.objs[r].kind
      fresh == [h EXCEPT !.bufs = Append(@, v), !.objs[r].buf = Len(h.bufs) + 1]
  IN IF kind \in {"Generic", "Keyword"} THEN [heap |-> fresh, err |-> ""]
     ELSE IF kind \in {"ImplicitSha256Digest", "ParametersSha256Digest"}
       THEN IF Len(v) # DigestLen THEN [heap |-> h, err |-> "util.ErrOutOfRange"]
            ELSE [heap |-> fresh, err |-> ""]
     ELSE IF Uint64Panics(RefValue(h, r)) THEN [heap |-> h, err |-> "panic"]
     ELSE [heap |-> [h EXCEPT !.bufs[h.objs[r].buf] =
                       [i \in 1..Len(@) |->
                          IF i <= Uint64Len THEN BigEndianPutUint64(v)[i] ELSE @[i]]],
           err |-> ""]

\* The Name by value behind a Name by reference.
Deref(h, nm) ==
  [isNil |-> nm.isNil,
   components |-> [i \in 1..Len(nm.components) |-> RefComponent(h, nm.components[i])],
   wire |-> nm.wire]

\* Name.At(index): the reference the Name holds, not a copy.
NameAtRef(nm, index) ==
  IF index < 0 \/ index >= Len(nm.components) THEN NilRef
  ELSE nm.components[index + 1]

\* Name.Append(component): [heap, n, err]
NameAppendRef(h, nm, r) ==
  IF r = NilRef THEN [heap |-> h, n |-> nm, err |-> "util.ErrNonExistent"]
  ELSE LET d == RefDeepCopy(h, r)
       IN [heap |-> d.heap,
           n |-> [nm EXCEPT !.components = Append(@, d.ref), !.wire = BlockReset(@)],
           err |-> ""]

\* Name.Set(index, component): [heap, n, err]
NameSetRef(h, nm, index, r) ==
  IF index < 0 \/ index >= Len(nm.components)
    THEN [heap |-> h, n |-> nm, err |-> "util.ErrOutOfRange"]
  ELSE IF r = NilRef THEN [heap |-> h, n |-> nm, err |-> "panic"]
  ELSE LET d == RefDeepCopy(h, r)
       IN [heap |-> d.heap,
           n |-> [nm EXCEPT !.components[index + 1] = d.ref, !.wire = BlockReset(@)],
           err |-> ""]

\* The loops of Name.DeepCopy and Name.Prefix: each component copied in turn.
RECURSIVE CopyRefs(_, _)
CopyRefs(h, refs) ==
  IF refs = <<>> THEN [heap |-> h, refs |-> <<>>]
  ELSE LET d == RefDeepCopy(h, Head(refs))
           rest == CopyRefs(d.heap, Tail(refs))
       IN [heap |-> rest.heap, refs |-> <<d.ref>> \o rest.refs]

\* Name.DeepCopy(): [heap, n]
NameDeepCopyRef(h, nm) ==
  LET d == CopyRefs(h, nm.components)
  IN [heap |-> d.heap,
      n |-> [isNil |-> FALSE, components |-> d.refs, wire |-> ZeroBlock]]

\* Name.Prefix(size): [heap, n, err]
NamePrefixRef(h, nm, size) ==
  IF size > Len(nm.components) THEN [heap |-> h, n |-> NilName, err |-> "panic"]
  ELSE LET d == CopyRefs(h, Take(nm.components, size))
       IN [heap |-> d.heap,
           n |-> [isNil |-> FALSE, components |-> d.refs, wire |-> ZeroBlock],
           err |-> ""]

\* Name.Wire(): [n, block]; component.Wire() reads the value the object has now.
NameWireRef(h, nm) ==
  LET r == NameWire(Deref(h, nm))
  IN [n |-> [nm EXCEPT !.wire = r.n.wire], block |-> r.block]

\* The objects a Name by value holds, put on the heap in order: [heap, n].
RECURSIVE RefComponents(_, _)
RefComponents(h, components) ==
  IF components = <<>> THEN [heap |-> h, refs |-> <<>>]
  ELSE LET d == RefNew(h, Head(components).kind, Head(components).tlvType,
                       Head(components).value)
           rest == RefComponents(d.heap, Tail(components))
       IN [heap |-> rest.heap, refs |-> <<d.ref>> \o rest.refs]

RefName(h, name) ==
  LET d == RefComponents(h, name.components)
  IN [heap |-> d.heap, n |-> [name EXCEPT !.components = d.refs]]

(***************************************************************************)
(* The state.                                                              *)
(*   n         the Name the caller works on                                *)
(*   keep      whether the Block keeps the sub-elements parsed before a    *)
(*             malformed one (fixed for a run: a property of package tlv)  *)
(*   op        the last call made                                          *)
(*   arg       its arguments                                               *)
(*   err       the error it returned ("" for nil, "panic" for a panic)     *)
(*   ret       what else it returned                                       *)
(*   lastWire  the bytes of the last Wire() since the last mutation        *)
(*   decoded   the bytes of the block n was decoded from, while unmutated  *)
(*   heap      the component objects and value buffers behind references   *)
(*   p         a second Name, made from n by Prefix or DeepCopy            *)
(*   cRef      the reference to the component c the caller holds           *)
(* heap, p and cRef are used by the machine with references only; there the   *)
(* components of n and p are references into heap.                         *)
(***************************************************************************)
VARIABLES n, keep, op, arg, err, ret, lastWire, decoded, heap, p, cRef

vars == <<n, keep, op, arg, err, ret, lastWire, decoded, heap, p, cRef>>

heapVars == <<heap, p, cRef>>

NoArg == [block |-> ZeroBlock, comp |-> NilComponent, index |-> 0, other |-> NilName]

NoRet ==
  [bytes |-> <<>>, name |-> NilName, comp |-> NilComponent,
   cmpAB |-> 0, cmpBA |-> 0, eqAB |-> FALSE, eqBA |-> FALSE,
   pfxAB |-> FALSE, pfxBA |-> FALSE, pfxAA |-> FALSE, pfxEmptyA |-> FALSE]

NoBytes == [valid |-> FALSE, bytes |-> <<>>]

\* A panic unwinds the caller: nothing runs after it.
Halted == err = "panic"

(***************************************************************************)
(* Inputs.                                                                 *)
(***************************************************************************)
\* Components a caller can hold: constructor results, and a generic component
\* emptied by SetValue.
Components ==
  { NewGenericNameComponent(<<97>>).n,
    GenericSetValue(NewGenericNameComponent(<<97>>).n, <<>>),
    NewBaseNameComponent(221, <<97, 98>>).n,
    NewSegmentNameComponent(170).n }

\* Encoded sub-elements, sound and malformed, that block values are made of.
GenericA == <<8, 1, 97>>
SegmentPiece == <<33, 8, 0, 0, 0, 0, 0, 0, 0, 170>>
SegmentLong == <<33, 9, 0, 0, 0, 0, 0, 0, 0, 170, 1>>
SegmentShort == <<33, 3, 97, 98, 99>>
Truncated == <<8, 5, 98>>
EmptyValue == <<8, 0>>
NoLength == <<8>>
Unknown221 == <<221, 1, 97>>
Unknown256 == <<253, 1, 0, 1, 97>>
TooLargeType == <<254, 0, 1, 0, 0, 1, 97>>
DigestShort == <<1, 3, 97, 98, 99>>
DigestPiece == <<1, 32>> \o Zeros(DigestLen)

RECURSIVE SeqsUpTo(_, _)
SeqsUpTo(S, k) ==
  IF k = 0 THEN {<<>>}
  ELSE LET shorter == SeqsUpTo(S, k - 1)
       IN shorter \cup {Append(s, x) : s \in shorter, x \in S}

\* Blocks the Name of the state machine may have been decoded from.
InitPieces == {GenericA, SegmentLong, Truncated}

InitBlocks == {NewBlock(TlvName, Flatten(ps)) : ps \in SeqsUpTo(InitPieces, MaxPieces)}

\* Blocks given to DecodeName as a function.
AllPieces ==
  {GenericA, SegmentPiece, SegmentLong, SegmentShort, Truncated, EmptyValue, NoLength,
   Unknown221, Unknown256, TooLargeType, DigestShort, DigestPiece}

BrokenBlock == [NewBlock(TlvName, GenericA) EXCEPT !.wireErr = "tlv.ErrMissingLength"]

DecodeBlocks ==
  {NilBlock, BrokenBlock, NewBlock(TlvGenericNameComponent, GenericA \o GenericA)}
    \cup {NewBlock(TlvName, Flatten(ps)) : ps \in SeqsUpTo(AllPieces, MaxPieces)}

\* Blocks given to DecodeNameComponent as a function.
ComponentTypes == ReservedTypes \cup {0, TlvName, 9, 221, 256, MaxUint16, MaxUint16 + 1, 70000}

ComponentValues ==
  {<<>>, <<97>>, <<97, 98, 99>>, Zeros(7), BigEndianPutUint64(170),
   BigEndianPutUint64(170) \o <<1>>, Zeros(DigestLen - 1), Zeros(DigestLen),
   Zeros(DigestLen + 1)}

ComponentBlocks ==
  {NilBlock} \cup {NewBlock(t, v) : t \in ComponentTypes, v \in ComponentValues}

\* Names given to Compare, Equals and PrefixOf.
PairComponents ==
  { NewGenericNameComponent(<<97>>).n,
    NewGenericNameComponent(<<98>>).n,
    NewGenericNameComponent(<<97, 97>>).n,
    NewBaseNameComponent(TlvGenericNameComponent, <<97>>).n,
    NewBaseNameComponent(9, <<97>>).n,
    GenericSetValue(NewGenericNameComponent(<<97>>).n, <<>>) }

PairNames ==
  {[NewName EXCEPT !.components = cs] : cs \in SeqsUpTo(PairComponents, MaxPairSize)}

(***************************************************************************)
(* The Name state machine: a Name from NewName() or from a successful      *)
(* DecodeName, then any sequence of calls on it.                           *)
(***************************************************************************)
Init ==
  /\ heap = EmptyHeap
  /\ p = NilName
  /\ cRef = NilRef
  /\ keep \in BOOLEAN
  /\ arg = NoArg
  /\ err = ""
  /\ ret = NoRet
  /\ lastWire = NoBytes
  /\ \/ /\ n = NewName
        /\ op = "NewName"
        /\ decoded = NoBytes
     \/ \E b \in InitBlocks :
          /\ DecodeName(b, keep).err = ""
          /\ n = DecodeName(b, keep).n
          /\ op = "DecodeName"
          /\ decoded = [valid |-> TRUE, bytes |-> BlockBytes(b)]

\* err := n.Append(c)
AppendOp ==
  /\ UNCHANGED heapVars
  /\ ~Halted
  /\ NameSize(n) < MaxSize
  /\ \E c \in Components \cup {NilComponent} :
       LET r == NameAppend(n, c)
       IN /\ n' = r.n
          /\ err' = r.err
          /\ op' = "Append"
          /\ arg' = [NoArg EXCEPT !.comp = c]
          /\ ret' = NoRet
          /\ lastWire' = IF r.err = "" THEN NoBytes ELSE lastWire
          /\ decoded' = IF r.err = "" THEN NoBytes ELSE decoded
          /\ UNCHANGED keep

\* err := n.Set(i, c)
SetOp ==
  /\ UNCHANGED heapVars
  /\ ~Halted
  /\ \E i \in -1..MaxSize, c \in Components \cup {NilComponent} :
       LET r == NameSet(n, i, c)
       IN /\ n' = r.n
          /\ err' = r.err
          /\ op' = "Set"
          /\ arg' = [NoArg EXCEPT !.comp = c, !.index = i]
          /\ ret' = NoRet
          /\ lastWire' = IF r.err = "" THEN NoBytes ELSE lastWire
          /\ decoded' = IF r.err = "" THEN NoBytes ELSE decoded
          /\ UNCHANGED keep

\* n.Erase(i)
EraseOp ==
  /\ UNCHANGED heapVars
  /\ ~Halted
  /\ \E i \in -1..MaxSize :
       LET inRange == i >= 0 /\ i < NameSize(n)
       IN /\ n' = NameErase(n, i)
          /\ err' = ""
          /\ op' = "Erase"
          /\ arg' = [NoArg EXCEPT !.index = i]
          /\ ret' = NoRet
          /\ lastWire' = IF inRange THEN NoBytes ELSE lastWire
          /\ decoded' = IF inRange THEN NoBytes ELSE decoded
          /\ UNCHANGED keep

\* n.Clear()
ClearOp ==
  /\ UNCHANGED heapVars
  /\ ~Halted
  /\ n' = NameClear(n)
  /\ err' = ""
  /\ op' = "Clear"
  /\ arg' = NoArg
  /\ ret' = NoRet
  /\ lastWire' = IF NameSize(n) > 0 THEN NoBytes ELSE lastWire
  /\ decoded' = IF NameSize(n) > 0 THEN NoBytes ELSE decoded
  /\ UNCHANGED keep

\* b := n.Wire(); bytes, _ := b.Wire()
WireOp ==
  /\ UNCHANGED heapVars
  /\ ~Halted
  /\ LET r == NameWire(n)
     IN /\ n' = r.n
        /\ err' = ""
        /\ op' = "Wire"
        /\ arg' = NoArg
        /\ ret' = [NoRet EXCEPT !.bytes = BlockBytes(r.block)]
        /\ lastWire' = [valid |-> TRUE, bytes |-> BlockBytes(r.block)]
        /\ UNCHANGED <<keep, decoded>>

\* prefix := n.Prefix(k)
PrefixOp ==
  /\ UNCHANGED heapVars
  /\ ~Halted
  /\ \E k \in -1..(MaxSize + 1) :
       LET r == NamePrefix(n, k)
       IN /\ err' = r.err
          /\ op' = "Prefix"
          /\ arg' = [NoArg EXCEPT !.index = k]
          /\ ret' = [NoRet EXCEPT !.name = r.n]
          /\ UNCHANGED <<n, keep, lastWire, decoded>>

\* copy := n.DeepCopy()
DeepCopyOp ==
  /\ UNCHANGED heapVars
  /\ ~Halted
  /\ err' = ""
  /\ op' = "DeepCopy"
  /\ arg' = NoArg
  /\ ret' = [NoRet EXCEPT !.name = NameDeepCopy(n)]
  /\ UNCHANGED <<n, keep, lastWire, decoded>>

\* m, err := DecodeName(n.Wire()); bytes, _ := m.Wire().Wire()
RoundTripOp ==
  /\ UNCHANGED heapVars
  /\ ~Halted
  /\ LET w == NameWire(n)
         d == DecodeName(w.block, keep)
     IN /\ n' = w.n
        /\ err' = d.err
        /\ op' = "RoundTrip"
        /\ arg' = [NoArg EXCEPT !.block = w.block]
        /\ ret' = [NoRet EXCEPT !.name = d.n,
                                !.bytes = IF d.err = "" THEN BlockBytes(NameWire(d.n).block)
                                          ELSE <<>>]
        /\ lastWire' = [valid |-> TRUE, bytes |-> BlockBytes(w.block)]
        /\ UNCHANGED <<keep, decoded>>

Next ==
  \/ AppendOp
  \/ SetOp
  \/ EraseOp
  \/ ClearOp
  \/ WireOp
  \/ PrefixOp
  \/ DeepCopyOp
  \/ RoundTripOp

Spec == Init /\ [][Next]_vars

(***************************************************************************)
(* DecodeName as a function of its block.                                  *)
(***************************************************************************)
InitDecode ==
  /\ heap = EmptyHeap
  /\ p = NilName
  /\ cRef = NilRef
  /\ keep \in BOOLEAN
  /\ n = NewName
  /\ op = "block"
  /\ arg \in {[NoArg EXCEPT !.block = b] : b \in DecodeBlocks}
  /\ err = ""
  /\ ret = NoRet
  /\ lastWire = NoBytes
  /\ decoded = NoBytes

\* m, err := DecodeName(b)
DecodeNameStep ==
  /\ UNCHANGED heapVars
  /\ op = "block"
  /\ LET r == DecodeName(arg.block, keep)
     IN /\ op' = "DecodeName"
        /\ err' = r.err
        /\ ret' = [NoRet EXCEPT !.name = r.n]
        /\ UNCHANGED <<n, keep, arg, lastWire, decoded>>

NextDecode == DecodeNameStep

SpecDecode == InitDecode /\ [][NextDecode]_vars

(***************************************************************************)
(* DecodeNameComponent as a function of its block.                         *)
(***************************************************************************)
InitComponent ==
  /\ heap = EmptyHeap
  /\ p = NilName
  /\ cRef = NilRef
  /\ keep = TRUE
  /\ n = NewName
  /\ op = "block"
  /\ arg \in {[NoArg EXCEPT !.block = b] : b \in ComponentBlocks}
  /\ err = ""
  /\ ret = NoRet
  /\ lastWire = NoBytes
  /\ decoded = NoBytes

\* c, err := DecodeNameComponent(wire)
DecodeNameComponentStep ==
  /\ UNCHANGED heapVars
  /\ op = "block"
  /\ LET r == DecodeNameComponent(arg.block)
     IN /\ op' = "DecodeNameComponent"
        /\ err' = r.err
        /\ ret' = [NoRet EXCEPT !.comp = r.n]
        /\ UNCHANGED <<n, keep, arg, lastWire, decoded>>

NextComponent == DecodeNameComponentStep

SpecComponent == InitComponent /\ [][NextComponent]_vars

(***************************************************************************)
(* Compare, Equals and PrefixOf as functions of two names a = n and        *)
(* b = arg.other.                                                          *)
(***************************************************************************)
InitPair ==
  /\ heap = EmptyHeap
  /\ p = NilName
  /\ cRef = NilRef
  /\ keep = TRUE
  /\ n \in PairNames
  /\ op = "pair"
  /\ arg \in {[NoArg EXCEPT !.other = b] : b \in PairNames}
  /\ err = ""
  /\ ret = NoRet
  /\ lastWire = NoBytes
  /\ decoded = NoBytes

ComparePairStep ==
  /\ UNCHANGED heapVars
  /\ op = "pair"
  /\ op' = "ComparePair"
  /\ ret' = [NoRet EXCEPT !.cmpAB = NameCompare(n, arg.other),
                          !.cmpBA = NameCompare(arg.other, n),
                          !.eqAB = NameEquals(n, arg.other),
                          !.eqBA = NameEquals(arg.other, n),
                          !.pfxAB = NamePrefixOf(n, arg.other),
                          !.pfxBA = NamePrefixOf(arg.other, n),
                          !.pfxAA = NamePrefixOf(n, n),
                          !.pfxEmptyA = NamePrefixOf(NewName, n)]
  /\ UNCHANGED <<n, keep, arg, err, lastWire, decoded>>

NextPair == ComparePairStep

SpecPair == InitPair /\ [][NextPair]_vars

(***************************************************************************)
(* The machine with references: a Name n, the component c the caller       *)
(* holds, a second Name p made from n, and any sequence of calls on n, on  *)
(* p, on c and on the components At returns.                               *)
(***************************************************************************)
\* Components the caller makes with a constructor.
HeldComponents ==
  {NewGenericNameComponent(<<97>>).n, NewSegmentNameComponent(170).n}

\* Values the caller gives to SetValue, by kind of component.
SetValueInputs(kind) ==
  IF kind \in {"Generic", "Keyword"} THEN {<<>>}
  ELSE IF kind \in {"ImplicitSha256Digest", "ParametersSha256Digest"} THEN {Zeros(DigestLen), <<>>}
  ELSE {171}

\* The receiver of a call: the Name n or the Name p.
Target(t) == IF t = "n" THEN n ELSE p

\* The allocation fits the bound of the model.
Fits(h) == Len(h.objs) <= MaxCells /\ Len(h.bufs) <= MaxCells

InitHeap ==
  /\ keep = TRUE
  /\ op = "init"
  /\ arg = NoArg
  /\ err = ""
  /\ ret = NoRet
  /\ lastWire = NoBytes
  /\ decoded = NoBytes
  /\ p = NilName
  /\ \E first \in {NewName, DecodeName(NewBlock(TlvName, GenericA), TRUE).n},
        held \in HeldComponents :
       LET d == RefName(EmptyHeap, first)
           h == RefNew(d.heap, held.kind, held.tlvType, held.value)
       IN /\ n = d.n
          /\ heap = h.heap
          /\ cRef = h.ref

\* err := t.Append(c)
RefAppendOp ==
  /\ ~Halted
  /\ \E t \in {"n", "p"} :
       /\ ~Target(t).isNil
       /\ LET r == NameAppendRef(heap, Target(t), cRef)
          IN /\ Fits(r.heap)
             /\ heap' = r.heap
             /\ n' = IF t = "n" THEN r.n ELSE n
             /\ p' = IF t = "p" THEN r.n ELSE p
             /\ err' = r.err
             /\ op' = IF t = "n" THEN "n.Append" ELSE "p.Append"
             /\ arg' = NoArg
             /\ ret' = NoRet
             /\ UNCHANGED <<keep, lastWire, decoded, cRef>>

\* err := t.Set(i, c), for an i the Name has
RefSetOp ==
  /\ ~Halted
  /\ \E t \in {"n", "p"} :
       /\ ~Target(t).isNil
       /\ \E i \in 0..(NameSize(Target(t)) - 1) :
            LET r == NameSetRef(heap, Target(t), i, cRef)
            IN /\ Fits(r.heap)
               /\ heap' = r.heap
               /\ n' = IF t = "n" THEN r.n ELSE n
               /\ p' = IF t = "p" THEN r.n ELSE p
               /\ err' = r.err
               /\ op' = IF t = "n" THEN "n.Set" ELSE "p.Set"
               /\ arg' = NoArg
               /\ ret' = NoRet
               /\ UNCHANGED <<keep, lastWire, decoded, cRef>>

\* t.Erase(i), for an i the Name has
RefEraseOp ==
  /\ ~Halted
  /\ \E t \in {"n", "p"} :
       /\ ~Target(t).isNil
       /\ \E i \in 0..(NameSize(Target(t)) - 1) :
            /\ n' = IF t = "n" THEN NameErase(n, i) ELSE n
            /\ p' = IF t = "p" THEN NameErase(p, i) ELSE p
            /\ err' = ""
            /\ op' = IF t = "n" THEN "n.Erase" ELSE "p.Erase"
            /\ arg' = NoArg
            /\ ret' = NoRet
            /\ UNCHANGED <<keep, lastWire, decoded, heap, cRef>>

\* t.Clear()
RefClearOp ==
  /\ ~Halted
  /\ \E t \in {"n", "p"} :
       /\ ~Target(t).isNil
       /\ n' = IF t = "n" THEN NameClear(n) ELSE n
       /\ p' = IF t = "p" THEN NameClear(p) ELSE p
       /\ err' = ""
       /\ op' = IF t = "n" THEN "n.Clear" ELSE "p.Clear"
       /\ arg' = NoArg
       /\ ret' = NoRet
       /\ UNCHANGED <<keep, lastWire, decoded, heap, cRef>>

\* c.SetValue(v) on the component the caller holds
RefSetValueOp ==
  /\ ~Halted
  /\ \E v \in SetValueInputs(heap.objs[cRef].kind) :
       LET r == RefSetValue(heap, cRef, v)
       IN /\ Fits(r.heap)
          /\ heap' = r.heap
          /\ err' = r.err
          /\ op' = "c.SetValue"
          /\ arg' = NoArg
          /\ ret' = NoRet
          /\ UNCHANGED <<n, keep, lastWire, decoded, p, cRef>>

\* t.At(j).SetValue(v), for a j the Name has
RefAtSetValueOp ==
  /\ ~Halted
  /\ \E t \in {"n", "p"} :
       /\ ~Target(t).isNil
       /\ \E j \in 0..(NameSize(Target(t)) - 1) :
            \E v \in SetValueInputs(heap.objs[NameAtRef(Target(t), j)].kind) :
              LET r == RefSetValue(heap, NameAtRef(Target(t), j), v)
              IN /\ Fits(r.heap)
                 /\ heap' = r.heap
                 /\ err' = r.err
                 /\ op' = IF t = "n" THEN "n.At.SetValue" ELSE "p.At.SetValue"
                 /\ arg' = NoArg
                 /\ ret' = NoRet
                 /\ UNCHANGED <<n, keep, lastWire, decoded, p, cRef>>

\* p = n.Prefix(k), for a k within the size (the other k are the Prefix of Spec)
RefPrefixOp ==
  /\ ~Halted
  /\ \E k \in 0..NameSize(n) :
       LET r == NamePrefixRef(heap, n, k)
       IN /\ Fits(r.heap)
          /\ heap' = r.heap
          /\ p' = r.n
          /\ err' = r.err
          /\ op' = "p=n.Prefix"
          /\ arg' = NoArg
          /\ ret' = NoRet
          /\ UNCHANGED <<n, keep, lastWire, decoded, cRef>>

\* p = n.DeepCopy()
RefDeepCopyOp ==
  /\ ~Halted
  /\ LET r == NameDeepCopyRef(heap, n)
     IN /\ Fits(r.heap)
        /\ heap' = r.heap
        /\ p' = r.n
        /\ err' = ""
        /\ op' = "p=n.DeepCopy"
        /\ arg' = NoArg
        /\ ret' = NoRet
        /\ UNCHANGED <<n, keep, lastWire, decoded, cRef>>

\* b := n.Wire(); bytes, _ := b.Wire(); _, err := DecodeName(b)
RefWireOp ==
  /\ ~Halted
  /\ LET r == NameWireRef(heap, n)
     IN /\ n' = r.n
        /\ err' = DecodeName(r.block, keep).err
        /\ op' = "n.Wire"
        /\ arg' = NoArg
        /\ ret' = [NoRet EXCEPT !.bytes = BlockBytes(r.block)]
        /\ UNCHANGED <<keep, lastWire, decoded, heap, p, cRef>>

NextHeap ==
  \/ RefAppendOp
  \/ RefSetOp
  \/ RefEraseOp
  \/ RefClearOp
  \/ RefSetValueOp
  \/ RefAtSetValueOp
  \/ RefPrefixOp
  \/ RefDeepCopyOp
  \/ RefWireOp

SpecHeap == InitHeap /\ [][NextHeap]_vars

(***************************************************************************)
(* Properties.                                                             *)
(***************************************************************************)
\* The constraints the data model puts on a component's value, by type code.
ValidComponent(c) ==
  IF c.tlvType \in {TlvImplicitSha256DigestComponent, TlvParametersSha256DigestComponent}
    THEN Len(c.value) = DigestLen
  ELSE IF c.tlvType \in NumericTypes THEN Len(c.value) = Uint64Len
  ELSE Len(c.value) >= 1

ValidName(m) == \A i \in 1..Len(m.components) : ValidComponent(m.components[i])

\* The (type code, value) pairs of a name, in order.
TypeValues(m) ==
  [i \in 1..Len(m.components) |-> <<m.components[i].tlvType, m.components[i].value>>]

\* C1: a Name of valid components, built by Append/Set/Erase/Clear or by a
\* successful DecodeName, survives DecodeName(n.Wire()): the decode succeeds,
\* the result equals n under Equals, position by position, and encodes to the
\* same bytes.
C1_RoundTrip ==
  (op = "RoundTrip" /\ ValidName(n)) =>
    /\ err = ""
    /\ ~ret.name.isNil
    /\ NameEquals(ret.name, n)
    /\ TypeValues(ret.name) = TypeValues(n)
    /\ ret.bytes = BlockBytes(arg.block)

C1_Witness ==
  /\ op = "RoundTrip"
  /\ ValidName(n)
  /\ NameSize(n) = 3
  /\ n.components[1] # n.components[2]
  /\ ~decoded.valid

\* C2: the wire cache of a Name.  A new Name has no wire; after every Wire()
\* it has one; after every successful mutation (Append of a non-nil component,
\* Set or Erase at an index in [0, size), Clear of a non-empty name) it has
\* none; and a Wire() that follows a Wire() with no mutation between returns
\* the same bytes.
C2_WireCache ==
  /\ (op = "NewName" => ~NameHasWire(n))
  /\ [][ /\ (op' = "Wire" => NameHasWire(n'))
         /\ (op' = "Append" /\ ~arg'.comp.isNil => ~NameHasWire(n'))
         /\ (op' = "Set" /\ arg'.index >= 0 /\ arg'.index < NameSize(n) /\ err' = ""
               => ~NameHasWire(n'))
         /\ (op' = "Erase" /\ arg'.index >= 0 /\ arg'.index < NameSize(n)
               => ~NameHasWire(n'))
         /\ (op' = "Clear" /\ NameSize(n) > 0 => ~NameHasWire(n'))
         /\ (op' = "Wire" /\ lastWire.valid => ret'.bytes = lastWire.bytes)
     ]_vars

C2_Witness ==
  /\ op = "Append"
  /\ err = ""
  /\ NameSize(n) = 2
  /\ ~NameHasWire(n)
  /\ ~lastWire.valid
  /\ ~decoded.valid

\* C3: a Name decoded from block b has a wire without any Wire() call, and
\* until its first mutation Wire() returns exactly the bytes of b.
C3_DecodedWire ==
  decoded.valid =>
    /\ NameHasWire(n)
    /\ BlockBytes(NameWire(n).block) = decoded.bytes
    /\ (op = "Wire" => ret.bytes = decoded.bytes)

C3_Witness ==
  /\ decoded.valid
  /\ op = "Wire"
  /\ NameSize(n) = 2
  /\ ret.bytes = <<TlvName, 6>> \o GenericA \o GenericA

\* C4: Compare is a total order: a.Compare(b) = -b.Compare(a); it is 0 exactly
\* when a.Equals(b); a strict prefix compares -1 to its extension and the
\* extension 1 to it.
C4_CompareTotalOrder ==
  op = "ComparePair" =>
    /\ ret.cmpAB \in {-1, 0, 1}
    /\ ret.cmpAB = -ret.cmpBA
    /\ (ret.cmpAB = 0 <=> ret.eqAB)
    /\ (ret.pfxAB /\ NameSize(n) < NameSize(arg.other)
          => ret.cmpAB = -1 /\ ret.cmpBA = 1)

C4_Witness ==
  /\ op = "ComparePair"
  /\ ret.pfxAB
  /\ NameSize(n) = 1
  /\ NameSize(arg.other) = 2
  /\ ret.cmpAB = -1

\* C5: every name is a prefix of itself; the empty name is a prefix of every
\* name; a prefix of equal size is equal; and both PrefixOf and Equals look at
\* nothing but the type code and the value bytes at each position.
C5_PrefixLaws ==
  op = "ComparePair" =>
    /\ ret.pfxAA
    /\ ret.pfxEmptyA
    /\ (ret.pfxAB /\ NameSize(n) = NameSize(arg.other) => ret.eqAB)
    /\ (ret.eqAB <=> TypeValues(n) = TypeValues(arg.other))
    /\ (ret.pfxAB <=>
          /\ NameSize(n) <= NameSize(arg.other)
          /\ TypeValues(n) = Take(TypeValues(arg.other), NameSize(n)))

C5_Witness ==
  /\ op = "ComparePair"
  /\ NameSize(n) = 2
  /\ n # arg.other
  /\ ret.pfxAB
  /\ ret.eqAB

\* C6: DecodeName of a Name block holding a component whose declared length
\* exceeds the bytes that remain fails with BufferTooShort and returns no Name.
C6_TruncatedComponentFails ==
  (/\ op = "DecodeName"
   /\ ~arg.block.isNil
   /\ arg.block.wireErr = ""
   /\ arg.block.type = TlvName
   /\ BlockParse(arg.block.value).err = "tlv.ErrBufferTooShort")
    => err = "tlv.ErrBufferTooShort" /\ ret.name.isNil

\* The error DecodeNameComponent gives for the first sub-element it refuses.
RECURSIVE FirstComponentError(_)
FirstComponentError(elems) ==
  IF elems = <<>> THEN ""
  ELSE IF DecodeNameComponent(Head(elems)).err # "" THEN DecodeNameComponent(Head(elems)).err
  ELSE FirstComponentError(Tail(elems))

\* C7: DecodeName is all-or-nothing: a Name and no error, or an error and no
\* Name, never a Name that holds only part of the block; NonExistent for a nil
\* block, Unrecognized for a block of another type, and otherwise the error of
\* the first sub-element DecodeNameComponent refuses.
C7_AllOrNothing ==
  op = "DecodeName" =>
    /\ err # "panic"
    /\ (ret.name.isNil <=> err # "")
    /\ (arg.block.isNil => err = "util.ErrNonExistent")
    /\ (~arg.block.isNil /\ arg.block.wireErr = "" /\ arg.block.type # TlvName
          => err = "tlv.ErrUnrecognized")
    /\ (~arg.block.isNil /\ arg.block.wireErr = "" /\ arg.block.type = TlvName
          => /\ FirstComponentError(BlockParse(arg.block.value).subelements) # ""
                => err = FirstComponentError(BlockParse(arg.block.value).subelements)
             /\ err = ""
                => /\ BlockParse(arg.block.value).err = ""
                   /\ NameSize(ret.name) = Len(BlockParse(arg.block.value).subelements))

\* C8: DecodeNameComponent of a block typed as one of the five numeric markers
\* returns an error and no component whenever the value is not exactly 8
\* bytes long; it neither panics nor accepts the value.
C8_NumericLengthChecked ==
  (/\ op = "DecodeNameComponent"
   /\ ~arg.block.isNil
   /\ arg.block.type \in NumericTypes
   /\ Len(arg.block.value) # Uint64Len)
    => err \notin {"", "panic"} /\ ret.comp.isNil

\* C9: DecodeNameComponent: an empty value fails with BufferTooShort whatever
\* the type code; otherwise, outside the nine reserved codes, a type code above
\* 65535 fails with OutOfRange and yields no component, and any other type code
\* yields a component with the block's type code and value bytes.
C9_FallbackDispatch ==
  (op = "DecodeNameComponent" /\ ~arg.block.isNil) =>
    /\ Len(arg.block.value) = 0 => err = "tlv.ErrBufferTooShort" /\ ret.comp.isNil
    /\ (Len(arg.block.value) > 0 /\ arg.block.type \notin ReservedTypes) =>
         IF arg.block.type > MaxUint16
         THEN err = "util.ErrOutOfRange" /\ ret.comp.isNil
         ELSE /\ err = ""
              /\ ~ret.comp.isNil
              /\ ret.comp.tlvType = arg.block.type
              /\ ret.comp.value = arg.block.value

C9_Witness ==
  /\ op = "DecodeNameComponent"
  /\ arg.block.type = 221
  /\ arg.block.value = <<97, 98, 99>>
  /\ ret.comp.tlvType = 221
  /\ ret.comp.kind = "Base"

\* C10: Prefix(k) is defined for every k: an empty Name for k <= 0, the first
\* k components for 0 < k < Size(), a Name equal to the source for
\* k >= Size(); the result has no wire and the source is unchanged.
C10_PrefixTotal ==
  [][ op' = "Prefix" =>
        /\ err' = ""
        /\ ~ret'.name.isNil
        /\ (arg'.index <= 0 => ret'.name.components = <<>>)
        /\ (arg'.index > 0 /\ arg'.index < NameSize(n)
              => ret'.name.components = Take(n.components, arg'.index))
        /\ (arg'.index >= NameSize(n) => NameEquals(ret'.name, n))
        /\ ~NameHasWire(ret'.name)
        /\ n' = n
    ]_vars

\* C11: Append(c) with c nil fails with NonExistent and leaves the components
\* and the wire cache as they were; with any other c it succeeds, Size() grows
\* by exactly one, the new last position holds c's type code and value bytes,
\* and every earlier position is unchanged.  The same component may be
\* appended again and again, one more entry each time.
C11_AppendContract ==
  [][ op' = "Append" =>
        IF arg'.comp.isNil
        THEN /\ err' = "util.ErrNonExistent"
             /\ n'.components = n.components
             /\ n'.wire = n.wire
        ELSE /\ err' = ""
             /\ NameSize(n') = NameSize(n) + 1
             /\ SameComponent(NameAt(n', NameSize(n)), arg'.comp)
             /\ Take(n'.components, NameSize(n)) = n.components
    ]_vars

C11_Witness ==
  /\ op = "Append"
  /\ err = ""
  /\ NameSize(n) = 3
  /\ arg.comp = NewGenericNameComponent(<<97>>).n
  /\ SameComponent(NameAt(n, 1), arg.comp)
  /\ SameComponent(NameAt(n, 2), arg.comp)
  /\ ~SameComponent(NameAt(n, 0), arg.comp)

\* C12: Set(i, c) with i outside [0, Size()) fails with OutOfRange and leaves
\* the components and HasWire() as they were; with i inside the range it
\* succeeds, position i holds c's type code and value bytes, Size() and every
\* other position are unchanged, and HasWire() is false.
C12_SetContract ==
  [][ op' = "Set" =>
        IF arg'.index < 0 \/ arg'.index >= NameSize(n)
        THEN /\ err' = "util.ErrOutOfRange"
             /\ n'.components = n.components
             /\ NameHasWire(n') = NameHasWire(n)
        ELSE /\ err' = ""
             /\ SameComponent(NameAt(n', arg'.index), arg'.comp)
             /\ NameSize(n') = NameSize(n)
             /\ \A j \in 0..(NameSize(n) - 1) :
                  j # arg'.index => NameAt(n', j) = NameAt(n, j)
             /\ ~NameHasWire(n')
    ]_vars

\* C13: Erase(i) with i outside [0, Size()) changes nothing; with i inside the
\* range Size() drops by one, the positions below i are unchanged, every
\* position j >= i holds what position j + 1 held, At(old Size() - 1) is nil,
\* and HasWire() is false.
C13_EraseContract ==
  [][ op' = "Erase" =>
        IF arg'.index < 0 \/ arg'.index >= NameSize(n)
        THEN /\ n'.components = n.components
             /\ NameHasWire(n') = NameHasWire(n)
        ELSE /\ NameSize(n') = NameSize(n) - 1
             /\ \A j \in 0..(arg'.index - 1) : NameAt(n', j) = NameAt(n, j)
             /\ \A j \in arg'.index..(NameSize(n) - 2) : NameAt(n', j) = NameAt(n, j + 1)
             /\ NameAt(n', NameSize(n) - 1).isNil
             /\ ~NameHasWire(n')
    ]_vars

C13_Witness ==
  /\ op = "Erase"
  /\ arg.index = 0
  /\ NameSize(n) = 2
  /\ NameAt(n, 0) # NameAt(n, 1)
  /\ NameAt(n, 2).isNil
  /\ ~NameHasWire(n)

\* The calls that have n, and those that have p, as their receiver or result.
CallsOnN == {"n.Append", "n.Set", "n.Erase", "n.Clear", "n.At.SetValue"}

CallsOnP ==
  {"p.Append", "p.Set", "p.Erase", "p.Clear", "p.At.SetValue", "p=n.Prefix", "p=n.DeepCopy"}

\* C14: a Name shares no component storage with anything outside it: a
\* SetValue on the caller's c changes neither Name that c was appended to or
\* set in, and once p is n.Prefix(k) or n.DeepCopy(), no call on p or on a
\* component of p (Append, Set, Erase, Clear, At(j).SetValue) changes a type
\* code or a value byte of n, nor any such call on n those of p.
C14_NoSharedStorage ==
  [][ /\ op' \notin CallsOnN => TypeValues(Deref(heap', n')) = TypeValues(Deref(heap, n))
      /\ (op' \notin CallsOnP /\ ~p.isNil)
           => TypeValues(Deref(heap', p')) = TypeValues(Deref(heap, p))
    ]_vars

C14_Witness ==
  /\ op = "p.At.SetValue"
  /\ err = ""
  /\ NameSize(n) = 1
  /\ NameSize(p) = 1
  /\ RefComponent(heap, NameAtRef(n, 0)) = NewSegmentNameComponent(170).n
  /\ RefComponent(heap, NameAtRef(p, 0)) = NewSegmentNameComponent(171).n
  /\ RefComponent(heap, cRef) = NewSegmentNameComponent(170).n

\* The canonical encoding of a Name: the Name type code, the length, and the
\* encodings of the components it holds now, in order (07 00 when empty).
CanonicalWire(m) ==
  EncodeTLV(TlvName,
            Flatten([i \in 1..Len(m.components) |->
                       EncodeTLV(m.components[i].tlvType, m.components[i].value)]))

\* C15: the cache is coherent: after any sequence of DecodeName, Append, Set,
\* Erase, Clear, Wire and SetValue on a component At(i) returned, a Name that
\* has a wire has the canonical encoding of the components it holds now as
\* that wire, and Wire() returns that encoding, never a stale one.
C15_CacheCoherent ==
  /\ NameHasWire(n) => n.wire.wire = CanonicalWire(Deref(heap, n))
  /\ op = "n.Wire" => ret.bytes = CanonicalWire(Deref(heap, n))

\* C16: after any sequence of constructors, SetValue, Append, Set, Erase,
\* Prefix and DeepCopy, every component a Name holds has a value of at least
\* one byte, and DecodeName accepts what Wire() returns.
C16_NonEmptyValues ==
  /\ \A i \in 0..(NameSize(n) - 1) : Len(RefValue(heap, NameAtRef(n, i))) >= 1
  /\ ~p.isNil => \A i \in 0..(NameSize(p) - 1) : Len(RefValue(heap, NameAtRef(p, i))) >= 1
  /\ op = "n.Wire" => err = ""

====
